---- MODULE Spec2Model ----
(***************************************************************************)
(* Verification model of the Ovis workflow engine                          *)
(* (ovis/workflow/engine.py) and of the callers that drive it              *)
(* (ovis/ui/workflow/workflow_runner.py, ovis/ui/workflow_widget.py).      *)
(*                                                                         *)
(* Python strings that the code parses are sequences of one-character      *)
(* strings; Python values are tagged records [kind, v].                    *)
(***************************************************************************)
EXTENDS Integers, Sequences, FiniteSets, TLC

\* ------------------------------------------------------------------ bounds
\* Largest number of tasks of a workflow.
MaxTasks == 3
\* Largest number of '.'-separated parts of a generated reference string.
MaxSegments == 3
\* Largest number of execute_workflow calls made on one workflow object.
MaxRuns == 2
\* Number of create_workflow_from_template calls that reach uuid4.
MaxCreates == 2
\* Largest number of tasks of the workflows that run concurrently.
MaxSharedTasks == 2

\* ------------------------------------------------------------------ values
\* Python values: None, str, int, dict, list.
Null == [kind |-> "null", v |-> <<>>]
Str(s) == [kind |-> "str", v |-> s]
Num(n) == [kind |-> "num", v |-> n]
Dict(d) == [kind |-> "dict", v |-> d]
List(l) == [kind |-> "list", v |-> l]

\* Python None in the error fields (task.error, workflow.error).
None == "None"

\* Python truthiness of a value (the test `params["previous_result"]`).
Truthy(val) ==
    CASE val.kind = "null" -> FALSE
      [] val.kind = "num" -> val.v # 0
      [] val.kind = "str" -> val.v # <<>>
      [] val.kind = "dict" -> DOMAIN val.v # {}
      [] val.kind = "list" -> val.v # <<>>

\* isinstance(value, str) and value.startswith("$")
IsRef(val) == val.kind = "str" /\ val.v # <<>> /\ Head(val.v) = "$"

\* str.split("."): the parts of s between the dots; "" splits to [""].
RECURSIVE SplitFrom(_, _, _)
SplitFrom(s, cur, acc) ==
    IF s = <<>> THEN Append(acc, cur)
    ELSE IF Head(s) = "." THEN SplitFrom(Tail(s), <<>>, Append(acc, cur))
    ELSE SplitFrom(Tail(s), Append(cur, Head(s)), acc)

Split(s) == SplitFrom(s, <<>>, <<>>)

\* Mutant of Walk: a segment that cannot be followed leaves the value reached so
\* far instead of None.
RECURSIVE WalkKeepsLast(_, _)
WalkKeepsLast(result, parts) ==
    IF parts = <<>> THEN result
    ELSE IF result.kind = "dict" /\ Head(parts) \in DOMAIN result.v
         THEN WalkKeepsLast(result.v[Head(parts)], Tail(parts))
         ELSE result

\* The loop over parts[1:] of _process_params (engine.py:269-274): descend while
\* the current value is a dict holding the part, else None and stop.
RECURSIVE Walk(_, _)
Walk(result, parts) ==
    IF parts = <<>> THEN result
    ELSE IF result.kind = "dict" /\ Head(parts) \in DOMAIN result.v
         THEN Walk(result.v[Head(parts)], Tail(parts))
         ELSE Null

\* Mutant of ResolveValue: an unknown task id resolves to None instead of the
\* literal.
ResolveValueUnknownToNull(value, res) ==
    IF IsRef(value)
    THEN LET parts == Split(Tail(value.v))
             task_id == parts[1]
         IN IF task_id \in DOMAIN res THEN Walk(res[task_id], Tail(parts)) ELSE Null
    ELSE value

\* One non-previous_result parameter (engine.py:259-280).
ResolveValue(value, res) ==
    IF IsRef(value)
    THEN LET parts == Split(Tail(value.v))
             task_id == parts[1]
         IN IF task_id \in DOMAIN res THEN Walk(res[task_id], Tail(parts)) ELSE value
    ELSE value

\* Mutant of ProcessParams: a previous_result naming an unknown task id is passed
\* on as the raw value instead of being left out.
ProcessParamsKeepsRawPrev(params, res) ==
    LET hasPrev == "previous_result" \in DOMAIN params
                   /\ Truthy(params["previous_result"])
        raw == params["previous_result"]
        task_id == IF IsRef(raw) THEN Str(Tail(raw.v)) ELSE raw
        prevIn == hasPrev /\ task_id.kind = "str" /\ task_id.v \in DOMAIN res
        keys == (DOMAIN params \ {"previous_result"})
                \cup (IF hasPrev THEN {"previous_result"} ELSE {})
    IN [raised |-> FALSE,
        params |-> [k \in keys |->
                      IF k = "previous_result"
                      THEN IF prevIn THEN res[task_id.v] ELSE raw
                      ELSE ResolveValue(params[k], res)]]

\* _process_params: [raised, params].  raised is the TypeError of
\* `task_id in results` for an unhashable previous_result (a dict or a list).
ProcessParams(params, res) ==
    LET hasPrev == "previous_result" \in DOMAIN params
                   /\ Truthy(params["previous_result"])
        raw == params["previous_result"]
        task_id == IF IsRef(raw) THEN Str(Tail(raw.v)) ELSE raw
        unhashable == hasPrev /\ task_id.kind \in {"dict", "list"}
        prevIn == hasPrev /\ task_id.kind = "str" /\ task_id.v \in DOMAIN res
        keys == (DOMAIN params \ {"previous_result"})
                \cup (IF prevIn THEN {"previous_result"} ELSE {})
    IN [raised |-> unhashable,
        params |-> IF unhashable THEN <<>>
                   ELSE [k \in keys |->
                           IF k = "previous_result" THEN res[task_id.v]
                           ELSE ResolveValue(params[k], res)]]

\* ------------------------------------------------------------ the workflows
\* The workflow objects; each is driven by at most one execute_workflow call at
\* a time.
WF == {"A", "B"}

\* Registry keys and the callables registered under them.
HandlerTypes == {"h1", "h2"}
Funcs == {"f1", "f2"}
NoHandler == "none"

\* Observer hooks: nothing, the signal emitters a runner thread installs for
\* its workflow (workflow_runner.py:51-53), or an observer that raises.
NoHook == "none"
RaisingHook == "raise"
Hooks == {NoHook, RaisingHook} \cup WF

\* Messages: str(e) of the exceptions that can reach execute_workflow.
CancelMsg == "cancelled by user"
HandlerErr == "handler error"
HookErr == "hook error"
TypeErr == "unhashable type"
NoHandlerMsg(h) == IF h = "h1" THEN "no handler for h1" ELSE "no handler for h2"
Msg(m) == [kind |-> "msg", v |-> m]

Digits == <<"1", "2", "3", "4", "5", "6", "7", "8", "9">>
TaskId(i) == IF i = 0 THEN <<"t", "0">> ELSE <<"t", Digits[i]>>

\* "a.b.c" from <<a, b, c>>.
RECURSIVE JoinDots(_)
JoinDots(parts) ==
    IF parts = <<>> THEN <<>>
    ELSE IF Len(parts) = 1 THEN parts[1]
    ELSE parts[1] \o <<".">> \o JoinDots(Tail(parts))

\* The reference string "$<parts joined by dots>".
RefString(parts) == Str(<<"$">> \o JoinDots(parts))

\* The callable registered for each type by the application, and what a callable
\* returns when it succeeds: f1 answers with a mapping that echoes its q
\* parameter under the key k, f2 with the bare q parameter.
DefaultFunc(h) == IF h = "h1" THEN "f1" ELSE "f2"
FuncResult(f, params) ==
    IF f = "f1" THEN Dict(<<"k">> :> params["q"]) ELSE params["q"]

\* The template the workflows are created from: task i reads the whole result
\* of task i-1 (task 1 names the unknown id t0), one key of it, and its own id.
TemplateTask(i) ==
    [id |-> TaskId(i),
     handler |-> IF i % 2 = 1 THEN "h1" ELSE "h2",
     description |-> "",
     parameters |-> ("previous_result" :> RefString(<<TaskId(i - 1)>>))
                    @@ ("p" :> RefString(<<TaskId(i - 1), <<"k">>>>))
                    @@ ("q" :> RefString(<<TaskId(i)>>))]

\* description or f"{handler} 작업" (engine.py:29)
DefaultDescription(handler) ==
    CASE handler = "h1" -> "h1 task"
      [] handler = "h2" -> "h2 task"
      [] OTHER -> " task"

\* Task.__init__ (engine.py:25-34).
NewTask(d) ==
    [id |-> d.id, handler |-> d.handler, parameters |-> d.parameters,
     description |-> IF d.description = "" THEN DefaultDescription(d.handler)
                     ELSE d.description,
     status |-> "pending", result |-> Null, error |-> None]

\* Workflow.__init__ (engine.py:59-70).
NewWorkflow ==
    [status |-> "pending", result |-> Null, error |-> None, current_task_index |-> -1]

\* ------------------------------------------------- the persisted workflows
\* Template ids callers ask for: T is in the template directory, U is not.
TemplateIds == {"T", "U"}

\* The parsed YAML of template T with n tasks (spec 6: id, name, description,
\* tasks), stored under the file stem T.
TemplateStore(n) ==
    ("T" :> [id |-> "T", name |-> "T name", description |-> "",
             tasks |-> [i \in 1..n |-> TemplateTask(i)]])

\* Mutant of InstanceId: the suffix is left out.
InstanceIdNoSuffix(wid, sfx) == <<wid, "_", 0>>

\* f"{workflow.id}_{uuid.uuid4().hex[:8]}" (manager.py:83); the k-th value
\* uuid4 returns is written k.
InstanceId(wid, sfx) == <<wid, "_", sfx>>

\* The id of a file in the instance directory that no call of this manager
\* wrote, and the ids callers ask for.
ForeignId == <<"X">>
InstanceIds == {InstanceId("T", k) : k \in 0..MaxCreates} \cup {ForeignId}

\* The empty string that data.get("created_at", "") and
\* data.get("status", "") answer with for a missing key; as a creation time
\* it sorts before every timestamp.
NoTimestamp == 0
NoStatus == ""

\* File contents: text that is not JSON, a JSON array, a JSON object.
Garbage == [kind |-> "garbage", d |-> <<>>]
JsonList == [kind |-> "list", d |-> <<>>]
JsonObj(d) == [kind |-> "obj", d |-> d]

\* dict.get(key, default)
Get(data, key, default) == IF key \in DOMAIN data THEN data[key] ELSE default

\* Task.to_dict (engine.py:36-44).
TaskToDict(t) ==
    [id |-> t.id, handler |-> t.handler, parameters |-> t.parameters,
     description |-> t.description, status |-> t.status]

\* Workflow.to_dict (engine.py:77-84).
WorkflowToDict(w) ==
    [id |-> w.id, name |-> w.name, description |-> w.description,
     tasks |-> [i \in DOMAIN w.tasks |-> TaskToDict(w.tasks[i])]]

\* Workflow.__init__ (engine.py:59-70) followed by add_task for each task.
WorkflowObject(id, name, description, ts, time) ==
    [id |-> id, name |-> name, description |-> description, tasks |-> ts,
     status |-> "pending", result |-> Null, error |-> None,
     current_task_index |-> -1, created_at |-> time, updated_at |-> time]

\* Task.from_dict (engine.py:46-54): data["id"] must be there, the other keys
\* have defaults.
TaskFromDictRaises(d) == "id" \notin DOMAIN d
TaskFromDict(d) ==
    NewTask([id |-> d["id"],
             handler |-> Get(d, "handler", Get(d, "type", "")),
             parameters |-> Get(d, "parameters", Get(d, "params", <<>>)),
             description |-> Get(d, "description", "")])

\* Workflow.from_dict (engine.py:86-99): data["id"] and data["name"] must be
\* there; a KeyError of any task is the call's.
WorkflowFromDictRaises(data) ==
    \/ "id" \notin DOMAIN data
    \/ "name" \notin DOMAIN data
    \/ \E i \in DOMAIN Get(data, "tasks", <<>>) :
          TaskFromDictRaises(Get(data, "tasks", <<>>)[i])
WorkflowFromDict(data, time) ==
    LET ds == Get(data, "tasks", <<>>)
    IN WorkflowObject(data["id"], data["name"], Get(data, "description", ""),
                      [i \in DOMAIN ds |-> TaskFromDict(ds[i])], time)

\* Workflow.from_yaml (engine.py:101-123).
WorkflowFromYaml(data, time) ==
    WorkflowObject(data["id"], data["name"], Get(data, "description", ""),
                   [i \in DOMAIN data.tasks |-> NewTask(data.tasks[i])], time)

\* What a WorkflowManager call hands its caller.
NoReturn == [op |-> "none", arg |-> <<>>, kind |-> "none", val |-> <<>>]
ReturnedValue(op, arg, kind, val) == [op |-> op, arg |-> arg, kind |-> kind, val |-> val]

\* What a call of execute_workflow hands its caller: nothing yet, a returned
\* mapping, or a raised exception.
NoOutcome == [kind |-> "none", ret |-> Null, exc |-> None]
Returned(res) == [kind |-> "returned", ret |-> Dict(res), exc |-> None]
Raised(m) == [kind |-> "raised", ret |-> Null, exc |-> m]

VARIABLES
    task_handlers,     \* engine.task_handlers: handler type -> callable
    cancel_execution,  \* engine.cancel_execution
    on_task_start,     \* engine.on_task_start
    on_task_complete,  \* engine.on_task_complete
    on_task_fail,      \* engine.on_task_fail
    tasks,             \* workflow.tasks, per workflow object
    wf,                \* workflow.status/result/error/current_task_index
    pc,                \* where the execute_workflow call on the workflow stands
    pos,               \* 1-based index of the task the loop is at
    results,           \* the local accumulator `results` of the call
    outcome,           \* what the last call returned or raised
    runs,              \* number of execute_workflow calls made on the workflow
    calls,             \* history: the handler invocations of the current call
    notified,          \* history: the hook notifications of the current call
    atStart,           \* history: the workflow as it was when the call began
    ending,            \* history: the exit the call took (completed, cancelled, failed)
    cancelReq,         \* history: where the call stood when cancellation was first requested
    lastReg,           \* history: the callable last passed to register_task_handler, per type
    pSegs, pIn, pAcc, pOut, pDone,  \* inputs and output of a _process_params call
    meta,              \* workflow.id/name/created_at/updated_at, per workflow object
    templates,         \* the template directory: file stem -> parsed YAML
    files,             \* the instance directory: file stem -> file content
    uuidCount,         \* number of uuid4() values drawn so far
    now,               \* the clock datetime.now() reads
    ret,               \* what the last WorkflowManager call handed its caller
    created,           \* history: the ids create_workflow_from_template assigned, in order
    emitted            \* the workflow signals the runner threads of a workflow emitted, in order

vars == <<task_handlers, cancel_execution, on_task_start, on_task_complete,
          on_task_fail, tasks, wf, pc, pos, results, outcome, runs, calls,
          notified, atStart, ending, cancelReq, lastReg, pSegs, pIn, pAcc, pOut,
          pDone, meta, templates, files, uuidCount, now, ret, created, emitted>>

engineVars == <<task_handlers, cancel_execution, on_task_start, on_task_complete,
                on_task_fail, tasks, wf, pc, pos, results, outcome, runs, calls,
                notified, atStart, ending, cancelReq, lastReg>>
paramVars == <<pSegs, pIn, pAcc, pOut, pDone>>
mgrVars == <<meta, templates, files, uuidCount, now, ret, created>>
runnerVars == <<emitted>>

\* No cancellation requested during the call so far; otherwise `before` is the
\* first task whose cancellation check the call had not passed, and `during`
\* the task whose handler was executing (0 if none was).
NoRequest == [before |-> 0, during |-> 0]

\* ------------------------------------------------------------------- Init
\* WorkflowEngine.__init__ (engine.py:136-145) and workflows created from the
\* template with n tasks.
EngineInit(n) ==
    /\ task_handlers = [h \in HandlerTypes |-> NoHandler]
    /\ cancel_execution = FALSE
    /\ on_task_start = NoHook
    /\ on_task_complete = NoHook
    /\ on_task_fail = NoHook
    /\ tasks = [w \in WF |-> [i \in 1..n |-> NewTask(TemplateTask(i))]]
    /\ wf = [w \in WF |-> NewWorkflow]
    /\ pc = [w \in WF |-> "idle"]
    /\ pos = [w \in WF |-> 1]
    /\ results = [w \in WF |-> <<>>]
    /\ outcome = [w \in WF |-> NoOutcome]
    /\ runs = [w \in WF |-> 0]
    /\ calls = [w \in WF |-> <<>>]
    /\ notified = [w \in WF |-> <<>>]
    /\ atStart = [w \in WF |-> [status |-> <<>>, result |-> Null,
                                 hooks |-> <<NoHook, NoHook, NoHook>>,
                                 cancel |-> FALSE]]
    /\ ending = [w \in WF |-> "none"]
    /\ cancelReq = [w \in WF |-> NoRequest]
    /\ lastReg = [h \in HandlerTypes |-> NoHandler]
    /\ emitted = [w \in WF |-> <<>>]

ParamsIdle ==
    /\ pSegs = <<>>
    /\ pIn = <<>>
    /\ pAcc = <<>>
    /\ pOut = [raised |-> FALSE, params |-> <<>>]
    /\ pDone = TRUE

\* WorkflowManager.__init__ (manager.py:14-30) over a template directory that
\* holds template T with n tasks and an instance directory that holds the
\* instance the workflow objects were loaded from, plus the files in extra.
ManagerInit(n, extra) ==
    /\ meta = [w \in WF |-> [id |-> InstanceId("T", 0), name |-> "T name",
                              description |-> "", created_at |-> 1, updated_at |-> 1]]
    /\ templates = TemplateStore(n)
    /\ files = (InstanceId("T", 0) :>
                   JsonObj(WorkflowToDict(
                       WorkflowFromYaml([TemplateStore(n)["T"] EXCEPT
                                            !.id = InstanceId("T", 0)], 1))))
               @@ extra
    /\ uuidCount = 0
    /\ now = 1
    /\ ret = NoReturn
    /\ created = <<>>

Init == (\E n \in 0..MaxTasks : EngineInit(n) /\ ManagerInit(n, <<>>)) /\ ParamsIdle

\* ------------------------------------------------- pieces of the engine code
\* Mutant of CancelRequested: the flag is never looked at.
CancelIgnored == FALSE

\* `if self.cancel_execution:` (engine.py:165)
CancelRequested == cancel_execution

\* Mutant of Registered: a type that already has a handler keeps it.
RegisteredKeepsFirst(handlers, h, f) ==
    IF handlers[h] = NoHandler THEN [handlers EXCEPT ![h] = f] ELSE handlers

\* self.task_handlers[handler_type] = handler_func (engine.py:149)
Registered(handlers, h, f) == [handlers EXCEPT ![h] = f]

\* `handler = self.task_handlers.get(task.handler)` (engine.py:204)
LookupHandler(h) == task_handlers[h]

\* Mutant of Notify: the failure of a task is not reported.
NotifyDropsFail(log, hook, ev, task_id, arg) ==
    IF hook = NoHook \/ ev = "fail" THEN log
    ELSE Append(log, [to |-> hook, ev |-> ev, task |-> task_id, arg |-> arg])

\* Mutant of Notify: a run keeps notifying the observer that received its first
\* notification, whatever is installed later.
NotifyFirstReceiver(log, hook, ev, task_id, arg) ==
    IF hook = NoHook THEN log
    ELSE Append(log, [to |-> IF log = <<>> THEN hook ELSE log[1].to,
                      ev |-> ev, task |-> task_id, arg |-> arg])

\* A hook call `if self.on_x: self.on_x(...)`: the notification delivered.
Notify(log, hook, ev, task_id, arg) ==
    IF hook = NoHook THEN log
    ELSE Append(log, [to |-> hook, ev |-> ev, task |-> task_id, arg |-> arg])

\* task.status = "running" (engine.py:193)
TaskRunning(t) == [t EXCEPT !.status = "running"]

\* Mutants of TaskCompleted: the status is left as it was; a raised
\* cancellation flag turns the finished task into a failed one.
TaskCompletedStaysRunning(t, r) == [t EXCEPT !.result = r]
TaskCompletedUnlessCancelled(t, r) ==
    IF cancel_execution THEN [t EXCEPT !.status = "failed", !.error = CancelMsg]
    ELSE [t EXCEPT !.status = "completed", !.result = r]

\* task.status = "completed"; task.result = result (engine.py:215-216)
TaskCompleted(t, r) == [t EXCEPT !.status = "completed", !.result = r]

\* task.status = "failed"; task.error = str(e) (engine.py:229-230)
TaskFailed(t, m) == [t EXCEPT !.status = "failed", !.error = m]

\* Mutant of ClearedFlag: a request left over from before the call is kept.
ClearedFlagKeepsRequest(flag) == flag

\* engine.py:160: self.cancel_execution = False
ClearedFlag(flag) == FALSE

\* Mutant of FreshResults: the accumulator of the previous call is kept.
FreshResultsKeepsOld(old) == old

\* engine.py:157: results = {}, a new accumulator for every call.
FreshResults(old) == <<>>

\* Mutant of NextIndex: the loop stays at the task it has just executed.
NextIndexSame(i) == i

\* `for i, task in enumerate(workflow.tasks)` (engine.py:163): the loop moves
\* to the next task.
NextIndex(i) == i + 1

\* Mutant of StoreResult: the result is filed under the first task id.
StoreResultUnderFirst(res, t, r) == (TaskId(1) :> r) @@ res

\* results[task.id] = task_result (engine.py:175)
StoreResult(res, t, r) == (t.id :> r) @@ res

\* workflow.status = "completed"; workflow.result = results (engine.py:178-179)
WorkflowCompleted(w, res) == [wf[w] EXCEPT !.status = "completed", !.result = Dict(res)]

\* Mutant of WorkflowCancelled: the partial accumulator becomes workflow.result.
WorkflowCancelledKeepsPartial(w) ==
    [wf[w] EXCEPT !.status = "failed", !.error = CancelMsg,
                  !.result = Dict(results[w])]

\* workflow.status = "failed"; workflow.error = <marker> (engine.py:167-168)
WorkflowCancelled(w) == [wf[w] EXCEPT !.status = "failed", !.error = CancelMsg]

\* Mutant of WorkflowFailed: the error is not recorded.
WorkflowFailedNoError(w, m) == [wf[w] EXCEPT !.status = "failed"]

\* workflow.status = "failed"; workflow.error = str(e) (engine.py:186-187)
WorkflowFailed(w, m) == [wf[w] EXCEPT !.status = "failed", !.error = m]

\* `return results` after the loop (engine.py:182), `return results` at the
\* cancellation check (engine.py:169), `raise` (engine.py:189).
ReturnCompleted(res) == Returned(res)
\* Mutant of ReturnCancelled: cancellation raises like a failure.
RaiseCancelled(res) == Raised(CancelMsg)
ReturnCancelled(res) == Returned(res)
RaiseFailure(m) == Raised(m)

\* The current task of the call on w.
Cur(w) == tasks[w][pos[w]]

\* The except branch of _execute_task followed by the except branch of
\* execute_workflow (engine.py:227-239, 184-189): the task is marked failed with
\* message m, the fail hook is notified, and the exception (the hook's own if it
\* raises) ends the call.
FailTask(w, t, m, log) ==
    LET exc == IF on_task_fail = RaisingHook THEN HookErr ELSE m
    IN /\ tasks' = [tasks EXCEPT ![w][pos[w]] = TaskFailed(t, m)]
       /\ notified' = [notified EXCEPT ![w] =
                          Notify(log, on_task_fail, "fail", t.id, Msg(m))]
       /\ wf' = [wf EXCEPT ![w] = WorkflowFailed(w, exc)]
       /\ outcome' = [outcome EXCEPT ![w] = RaiseFailure(exc)]
       /\ ending' = [ending EXCEPT ![w] = "failed"]
       /\ pc' = [pc EXCEPT ![w] = "idle"]

\* ------------------------------------------------------ execute_workflow
\* engine.py:151-160: the call begins.
ExecuteWorkflowStart(w) ==
    /\ pc[w] = "idle"
    /\ runs[w] < MaxRuns
    /\ wf' = [wf EXCEPT ![w].status = "running", ![w].current_task_index = -1]
    /\ results' = [results EXCEPT ![w] = FreshResults(@)]
    /\ cancel_execution' = ClearedFlag(cancel_execution)
    /\ pc' = [pc EXCEPT ![w] = "loop"]
    /\ pos' = [pos EXCEPT ![w] = 1]
    /\ outcome' = [outcome EXCEPT ![w] = NoOutcome]
    /\ runs' = [runs EXCEPT ![w] = @ + 1]
    /\ calls' = [calls EXCEPT ![w] = <<>>]
    /\ notified' = [notified EXCEPT ![w] = <<>>]
    /\ atStart' = [atStart EXCEPT ![w] =
                      [status |-> [i \in DOMAIN tasks[w] |-> tasks[w][i].status],
                       result |-> wf[w].result,
                       hooks |-> <<on_task_start, on_task_complete, on_task_fail>>,
                       cancel |-> cancel_execution]]
    /\ ending' = [ending EXCEPT ![w] = "none"]
    /\ cancelReq' = [cancelReq EXCEPT ![w] = NoRequest]
    /\ UNCHANGED <<task_handlers, on_task_start, on_task_complete, on_task_fail,
                   tasks, lastReg, paramVars, mgrVars, runnerVars>>

\* engine.py:177-182: the loop is exhausted.
ExecuteWorkflowCompletes(w) ==
    /\ pc[w] = "loop"
    /\ pos[w] > Len(tasks[w])
    /\ wf' = [wf EXCEPT ![w] = WorkflowCompleted(w, results[w])]
    /\ outcome' = [outcome EXCEPT ![w] = ReturnCompleted(results[w])]
    /\ ending' = [ending EXCEPT ![w] = "completed"]
    /\ pc' = [pc EXCEPT ![w] = "idle"]
    /\ UNCHANGED <<task_handlers, cancel_execution, on_task_start, on_task_complete,
                   on_task_fail, tasks, pos, results, runs, calls, notified,
                   atStart, cancelReq, lastReg, paramVars, mgrVars, runnerVars>>

\* engine.py:165-169: the cancellation check before a task finds the flag set.
ExecuteWorkflowCancelled(w) ==
    /\ pc[w] = "loop"
    /\ pos[w] <= Len(tasks[w])
    /\ CancelRequested
    /\ wf' = [wf EXCEPT ![w] = WorkflowCancelled(w)]
    /\ outcome' = [outcome EXCEPT ![w] = ReturnCancelled(results[w])]
    /\ ending' = [ending EXCEPT ![w] = "cancelled"]
    /\ pc' = [pc EXCEPT ![w] = "idle"]
    /\ UNCHANGED <<task_handlers, cancel_execution, on_task_start, on_task_complete,
                   on_task_fail, tasks, pos, results, runs, calls, notified,
                   atStart, cancelReq, lastReg, paramVars, mgrVars, runnerVars>>

\* engine.py:165, 171: the check passes and the task becomes the current one.
TaskSelected(w) ==
    /\ pc[w] = "loop"
    /\ pos[w] <= Len(tasks[w])
    /\ ~CancelRequested
    /\ wf' = [wf EXCEPT ![w].current_task_index = pos[w] - 1]
    /\ pc' = [pc EXCEPT ![w] = "exec"]
    /\ UNCHANGED <<task_handlers, cancel_execution, on_task_start, on_task_complete,
                   on_task_fail, tasks, pos, results, outcome, runs, calls,
                   notified, atStart, ending, cancelReq, lastReg, paramVars, mgrVars, runnerVars>>

\* --------------------------------------------------------- _execute_task
\* engine.py:193-198: the task is marked running and the start hook is
\* notified; a hook that raises ends the call from outside the try block of
\* _execute_task (engine.py:184-189), leaving the task as it is.
TaskStarts(w) ==
    LET t == TaskRunning(Cur(w))
    IN /\ pc[w] = "exec"
       /\ tasks' = [tasks EXCEPT ![w][pos[w]] = t]
       /\ notified' = [notified EXCEPT ![w] =
                          Notify(@, on_task_start, "start", t.id, Null)]
       /\ IF on_task_start = RaisingHook
          THEN /\ wf' = [wf EXCEPT ![w] = WorkflowFailed(w, HookErr)]
               /\ outcome' = [outcome EXCEPT ![w] = RaiseFailure(HookErr)]
               /\ ending' = [ending EXCEPT ![w] = "failed"]
               /\ pc' = [pc EXCEPT ![w] = "idle"]
          ELSE /\ pc' = [pc EXCEPT ![w] = "started"]
               /\ UNCHANGED <<wf, outcome, ending>>
       /\ UNCHANGED <<task_handlers, cancel_execution, on_task_start,
                      on_task_complete, on_task_fail, pos, results, runs, calls,
                      atStart, cancelReq, lastReg, paramVars, mgrVars, runnerVars>>

\* engine.py:204-212: the handler is looked up, the parameters are resolved
\* against the accumulator and the handler is called.
HandlerInvoked(w) ==
    LET t == Cur(w)
        handler == LookupHandler(t.handler)
        pp == ProcessParams(t.parameters, results[w])
    IN /\ pc[w] = "started"
       /\ handler # NoHandler
       /\ ~pp.raised
       /\ calls' = [calls EXCEPT ![w] =
                       Append(@, [idx |-> pos[w], func |-> handler,
                                  params |-> pp.params, acc |-> results[w],
                                  done |-> FALSE, ok |-> FALSE, val |-> Null])]
       /\ pc' = [pc EXCEPT ![w] = "handler"]
       /\ UNCHANGED <<task_handlers, cancel_execution, on_task_start,
                      on_task_complete, on_task_fail, tasks, wf, pos, results,
                      outcome, runs, notified, atStart, ending, cancelReq,
                      lastReg, paramVars, mgrVars, runnerVars>>

\* engine.py:204-209 raising inside the try block (no handler is registered for
\* the task's type, or _process_params raises), then engine.py:227-239, 184-189.
HandlerLookupFails(w) ==
    LET t == Cur(w)
        handler == LookupHandler(t.handler)
        pp == ProcessParams(t.parameters, results[w])
    IN /\ pc[w] = "started"
       /\ handler = NoHandler \/ pp.raised
       /\ FailTask(w, t,
                   IF handler = NoHandler THEN NoHandlerMsg(t.handler) ELSE TypeErr,
                   notified[w])
       /\ UNCHANGED <<task_handlers, cancel_execution, on_task_start,
                      on_task_complete, on_task_fail, pos, results, runs, calls,
                      atStart, cancelReq, lastReg, paramVars, mgrVars, runnerVars>>

\* The record of the handler invocation in progress, closed with its outcome.
CloseCall(w, ok, val) ==
    [calls EXCEPT ![w][Len(calls[w])] = [@ EXCEPT !.done = TRUE, !.ok = ok, !.val = val]]

\* engine.py:212-225, 175: the handler returns its result r.
HandlerReturns(w) ==
    LET call == calls[w][Len(calls[w])]
        r == FuncResult(call.func, call.params)
        t == TaskCompleted(Cur(w), r)
        log == Notify(notified[w], on_task_complete, "complete", t.id, r)
    IN /\ pc[w] = "handler"
       /\ calls' = CloseCall(w, TRUE, r)
       /\ IF on_task_complete = RaisingHook
          THEN /\ FailTask(w, t, HookErr, log)
               /\ UNCHANGED <<pos, results>>
          ELSE /\ tasks' = [tasks EXCEPT ![w][pos[w]] = t]
               /\ notified' = [notified EXCEPT ![w] = log]
               /\ results' = [results EXCEPT ![w] = StoreResult(@, t, r)]
               /\ pos' = [pos EXCEPT ![w] = NextIndex(@)]
               /\ pc' = [pc EXCEPT ![w] = "loop"]
               /\ UNCHANGED <<wf, outcome, ending>>
       /\ UNCHANGED <<task_handlers, cancel_execution, on_task_start,
                      on_task_complete, on_task_fail, runs, atStart, cancelReq,
                      lastReg, paramVars, mgrVars, runnerVars>>

\* engine.py:212, 227-239, 184-189: the handler raises.
HandlerRaises(w) ==
    /\ pc[w] = "handler"
    /\ calls' = CloseCall(w, FALSE, Msg(HandlerErr))
    /\ FailTask(w, Cur(w), HandlerErr, notified[w])
    /\ UNCHANGED <<task_handlers, cancel_execution, on_task_start,
                   on_task_complete, on_task_fail, pos, results, runs, atStart,
                   cancelReq, lastReg, paramVars, mgrVars, runnerVars>>

\* ------------------------------------------------------------ the callers
\* register_task_handler (engine.py:147-149).
RegisterTaskHandler(h, f) ==
    /\ task_handlers' = Registered(task_handlers, h, f)
    /\ lastReg' = [lastReg EXCEPT ![h] = f]
    /\ UNCHANGED <<cancel_execution, on_task_start, on_task_complete, on_task_fail,
                   tasks, wf, pc, pos, results, outcome, runs, calls, notified,
                   atStart, ending, cancelReq, paramVars, mgrVars, runnerVars>>

\* WorkflowRunnerThread.run, before it calls execute_workflow
\* (workflow_runner.py:51-53): the thread's emitters take the three slots.
InstallHooks(w) ==
    /\ pc[w] = "idle"
    /\ on_task_start' = w
    /\ on_task_complete' = w
    /\ on_task_fail' = w
    /\ UNCHANGED <<task_handlers, cancel_execution, tasks, wf, pc, pos, results,
                   outcome, runs, calls, notified, atStart, ending, cancelReq, lastReg, paramVars, mgrVars, runnerVars>>

\* The first task whose cancellation check the call on w has not passed yet.
NextUnchecked(w) == IF pc[w] = "loop" THEN pos[w] ELSE pos[w] + 1

\* WorkflowRunnerThread.stop (workflow_runner.py:70-74): cancellation is
\* requested.
Stop ==
    /\ cancel_execution' = TRUE
    /\ cancelReq' = [w \in WF |->
                       IF pc[w] # "idle" /\ cancelReq[w] = NoRequest
                       THEN [before |-> NextUnchecked(w),
                             during |-> IF pc[w] = "handler" THEN pos[w] ELSE 0]
                       ELSE cancelReq[w]]
    /\ UNCHANGED <<task_handlers, on_task_start, on_task_complete, on_task_fail,
                   tasks, wf, pc, pos, results, outcome, runs, calls, notified,
                   atStart, ending, lastReg, paramVars, mgrVars, runnerVars>>

\* WorkflowListWidget.run_selected_workflow (workflow_widget.py:168-175): the
\* explicit reset before a new run (the history of the last call ends here).
ResetForRun(w) ==
    /\ pc[w] = "idle"
    /\ wf' = [wf EXCEPT ![w].status = "pending"]
    /\ tasks' = [tasks EXCEPT ![w] =
                    [i \in DOMAIN @ |->
                        [@[i] EXCEPT !.status = "pending", !.result = Null,
                                     !.error = None]]]
    /\ ending' = [ending EXCEPT ![w] = "none"]
    /\ UNCHANGED <<task_handlers, cancel_execution, on_task_start, on_task_complete,
                   on_task_fail, pc, pos, results, outcome, runs, calls, notified,
                   atStart, cancelReq, lastReg, paramVars, mgrVars, runnerVars>>

\* ------------------------------------------------------ WorkflowManager
\* The workflow object w as the manager sees it.
ObjectOf(w) ==
    [id |-> meta[w].id, name |-> meta[w].name, description |-> meta[w].description,
     tasks |-> tasks[w], status |-> wf[w].status, result |-> wf[w].result,
     error |-> wf[w].error, current_task_index |-> wf[w].current_task_index,
     created_at |-> meta[w].created_at, updated_at |-> meta[w].updated_at]

\* Mutant of SavedInstance: every instance is written to the same file.
SavedInstanceOneFile(fs, w) == (InstanceId("T", 0) :> JsonObj(WorkflowToDict(w))) @@ fs

\* open(f"{workflow.id}.json", 'w'); json.dump(workflow.to_dict(), f)
\* (manager.py:94-97): the file of that id is created or overwritten.
SavedInstance(fs, w) == (w.id :> JsonObj(WorkflowToDict(w))) @@ fs

\* save_workflow_instance (manager.py:92-99) of a workflow object.
SaveWorkflowInstance(w) ==
    /\ files' = SavedInstance(files, ObjectOf(w))
    /\ ret' = ReturnedValue("save", meta[w].id, "path", meta[w].id)
    /\ UNCHANGED <<engineVars, runnerVars, paramVars, meta, templates, uuidCount, now, created>>

\* create_workflow_from_template (manager.py:73-90).
CreateWorkflowFromTemplate(tid) ==
    IF tid \notin DOMAIN templates
    THEN /\ ret' = ReturnedValue("create", tid, "error", "FileNotFoundError")
         /\ UNCHANGED <<engineVars, runnerVars, paramVars, meta, templates, files, uuidCount,
                        now, created>>
    ELSE LET t == WorkflowFromYaml(templates[tid], now)
             w == [t EXCEPT !.id = InstanceId(t.id, uuidCount + 1),
                            !.created_at = now + 1, !.updated_at = now + 1]
         IN /\ uuidCount < MaxCreates
            /\ uuidCount' = uuidCount + 1
            /\ now' = now + 1
            /\ files' = SavedInstance(files, w)
            /\ created' = Append(created, w.id)
            /\ ret' = ReturnedValue("create", tid, "workflow", w)
            /\ UNCHANGED <<engineVars, runnerVars, paramVars, meta, templates>>

\* Mutant of LoadResult: whatever parses as a JSON object is handed back, with
\* defaults for what is missing.
LoadResultLenient(fs, id, time) ==
    IF id \notin DOMAIN fs \/ fs[id].kind # "obj" THEN [kind |-> "none", val |-> <<>>]
    ELSE [kind |-> "workflow",
          val |-> WorkflowObject(Get(fs[id].d, "id", <<>>), Get(fs[id].d, "name", ""),
                                 "", <<>>, time)]

\* The body of load_workflow_instance (manager.py:103-115): None for a missing
\* file and for any exception of json.load or Workflow.from_dict.
LoadResult(fs, id, time) ==
    IF id \notin DOMAIN fs THEN [kind |-> "none", val |-> <<>>]
    ELSE IF fs[id].kind # "obj" THEN [kind |-> "none", val |-> <<>>]
    ELSE IF WorkflowFromDictRaises(fs[id].d) THEN [kind |-> "none", val |-> <<>>]
    ELSE [kind |-> "workflow", val |-> WorkflowFromDict(fs[id].d, time)]

\* load_workflow_instance (manager.py:101-115).
LoadWorkflowInstance(id) ==
    LET r == LoadResult(files, id, now)
    IN /\ ret' = ReturnedValue("load", id, r.kind, r.val)
       /\ UNCHANGED <<engineVars, runnerVars, paramVars, meta, templates, files, uuidCount,
                      now, created>>

\* Mutant of Removed: the whole instance directory is emptied.
RemovedAll(fs, id) == <<>>

\* os.remove(file_path) (manager.py:125): the file of that id is gone.
Removed(fs, id) == [f \in DOMAIN fs \ {id} |-> fs[f]]

\* delete_workflow_instance (manager.py:117-129).
DeleteWorkflowInstance(id) ==
    IF id \notin DOMAIN files
    THEN /\ ret' = ReturnedValue("delete", id, "bool", FALSE)
         /\ UNCHANGED <<engineVars, runnerVars, paramVars, meta, templates, files, uuidCount,
                        now, created>>
    ELSE /\ files' = Removed(files, id)
         /\ ret' = ReturnedValue("delete", id, "bool", TRUE)
         /\ UNCHANGED <<engineVars, runnerVars, paramVars, meta, templates, uuidCount, now,
                        created>>

\* The orders glob.glob may list the files of a directory in.
GlobOrders(fs) ==
    {o \in [1..Cardinality(DOMAIN fs) -> DOMAIN fs] :
        \A i, j \in DOMAIN o : i # j => o[i] # o[j]}

\* The loop of get_instances (manager.py:55-69) over the files in the order
\* given: one summary per file that parses as a JSON object, the others are
\* logged and skipped.
RECURSIVE Summaries(_, _)
Summaries(fs, order) ==
    IF order = <<>> THEN <<>>
    ELSE LET c == fs[Head(order)]
         IN (IF c.kind # "obj" THEN <<>>
             ELSE <<[id |-> Get(c.d, "id", ""),
                     name |-> Get(c.d, "name", ""),
                     status |-> Get(c.d, "status", NoStatus),
                     created_at |-> Get(c.d, "created_at", NoTimestamp),
                     updated_at |-> Get(c.d, "updated_at", NoTimestamp),
                     file_path |-> Head(order)]>>)
            \o Summaries(fs, Tail(order))

\* sorted(instances, key=created_at, reverse=True) (manager.py:71): a stable
\* sort, so summaries with equal keys keep the order they were listed in.
RECURSIVE SortedByCreatedDesc(_)
SortedByCreatedDesc(seq) ==
    IF seq = <<>> THEN <<>>
    ELSE LET x == seq[Len(seq)]
             rest == SortedByCreatedDesc(SubSeq(seq, 1, Len(seq) - 1))
             k == Cardinality({i \in DOMAIN rest : rest[i].created_at >= x.created_at})
         IN SubSeq(rest, 1, k) \o <<x>> \o SubSeq(rest, k + 1, Len(rest))

\* get_instances (manager.py:51-71).
GetInstances ==
    \E order \in GlobOrders(files) :
        /\ ret' = ReturnedValue("list", <<>>, "list",
                                SortedByCreatedDesc(Summaries(files, order)))
        /\ UNCHANGED <<engineVars, runnerVars, paramVars, meta, templates, files, uuidCount,
                       now, created>>

\* ------------------------------------------------------------ specification
\* One engine driving one workflow object at a time, with observers that
\* return normally.
Runner == "A"

Next ==
    \/ ExecuteWorkflowStart(Runner)
    \/ ExecuteWorkflowCompletes(Runner)
    \/ ExecuteWorkflowCancelled(Runner)
    \/ TaskSelected(Runner)
    \/ TaskStarts(Runner)
    \/ HandlerInvoked(Runner)
    \/ HandlerLookupFails(Runner)
    \/ HandlerReturns(Runner)
    \/ HandlerRaises(Runner)
    \/ \E h \in HandlerTypes : RegisterTaskHandler(h, DefaultFunc(h))
    \/ InstallHooks(Runner)
    \/ Stop
    \/ ResetForRun(Runner)

Spec == Init /\ [][Next]_vars

\* The engine with either callable registered for either type at any time,
\* before and during uninterrupted runs.
NextRegistry ==
    \/ \E h \in HandlerTypes, f \in Funcs : RegisterTaskHandler(h, f)
    \/ ExecuteWorkflowStart(Runner)
    \/ TaskSelected(Runner)
    \/ TaskStarts(Runner)
    \/ HandlerInvoked(Runner)
    \/ HandlerLookupFails(Runner)
    \/ HandlerReturns(Runner)
    \/ HandlerRaises(Runner)
    \/ ExecuteWorkflowCompletes(Runner)

SpecRegistry == Init /\ [][NextRegistry]_vars

\* ------------------------------------------------ WorkflowManager alone
\* What a file of the instance directory that this manager did not write may
\* hold: text that is not JSON, a JSON array, objects that lack the name, the
\* task list, a task's handler or a task's id, and an instance written by a
\* version that stored the status and the creation time.
ForeignFiles ==
    {Garbage,
     JsonList,
     JsonObj([id |-> ForeignId]),
     JsonObj([id |-> ForeignId, name |-> "X name"]),
     JsonObj([id |-> ForeignId, name |-> "X name", tasks |-> <<[id |-> TaskId(1)]>>]),
     JsonObj([id |-> ForeignId, name |-> "X name", tasks |-> <<[handler |-> "h1"]>>]),
     JsonObj([id |-> ForeignId, name |-> "X name", description |-> "",
              status |-> "completed", created_at |-> 1, updated_at |-> 1,
              tasks |-> <<TaskToDict(NewTask(TemplateTask(1)))>>])}

InitManager ==
    /\ \E n \in 0..MaxTasks :
          \E extra \in {<<>>} \cup {(ForeignId :> c) : c \in ForeignFiles} :
              EngineInit(n) /\ ManagerInit(n, extra)
    /\ ParamsIdle

NextManager ==
    \/ \E tid \in TemplateIds : CreateWorkflowFromTemplate(tid)
    \/ SaveWorkflowInstance(Runner)
    \/ \E id \in InstanceIds : LoadWorkflowInstance(id)
    \/ \E id \in InstanceIds : DeleteWorkflowInstance(id)
    \/ GetInstances

SpecManager == InitManager /\ [][NextManager]_vars

\* --------------------------------------- runs with saving and loading
\* One engine running the workflow object of instance T_0, whose owner saves
\* it and loads the instance at any moment.
NextPersist ==
    \/ \E h \in HandlerTypes : RegisterTaskHandler(h, DefaultFunc(h))
    \/ ExecuteWorkflowStart(Runner)
    \/ TaskSelected(Runner)
    \/ TaskStarts(Runner)
    \/ HandlerInvoked(Runner)
    \/ HandlerLookupFails(Runner)
    \/ HandlerReturns(Runner)
    \/ HandlerRaises(Runner)
    \/ ExecuteWorkflowCompletes(Runner)
    \/ SaveWorkflowInstance(Runner)
    \/ LoadWorkflowInstance(meta[Runner].id)

SpecPersist == Init /\ [][NextPersist]_vars

\* ------------------------------------------------- _process_params alone
\* The parts reference strings are generated from: the empty part, task ids,
\* keys and an index.
SegSet == {<<>>, <<"t">>, <<"k">>, <<"0">>, <<"t", "k">>}
SegSeqs == UNION {[1..n -> SegSet] : n \in 1..MaxSegments}

DeepDict ==
    Dict((<<"k">> :> Dict((<<"k">> :> Str(<<"v">>)) @@ (<<>> :> Num(0))))
         @@ (<<"t">> :> Str(<<"x">>))
         @@ (<<"0">> :> List(<<Null>>)))

\* Accumulators: task id -> result.
ParamAccs ==
    {<<>>,
     (<<"t">> :> DeepDict),
     (<<"t">> :> Str(<<"k">>)) @@ (<<"k">> :> Null),
     (<<"t">> :> List(<<Str(<<"v">>), DeepDict>>)) @@ (<<"t", "k">> :> DeepDict)}

\* The other keys of the raw parameter mapping.
QChoices ==
    {<<>>, ("q" :> Str(<<"k">>)), ("q" :> Num(7)),
     ("q" :> RefString(<<<<"z">>, <<"k">>>>))}
PrevChoices ==
    {<<>>,
     ("previous_result" :> RefString(<<<<"t">>>>)),
     ("previous_result" :> Str(<<"t">>)),
     ("previous_result" :> Str(<<>>)),
     ("previous_result" :> RefString(<<<<"z">>>>)),
     ("previous_result" :> RefString(<<<<"t">>, <<"k">>>>)),
     ("previous_result" :> Num(0)),
     ("previous_result" :> Num(7))}

InitParams ==
    /\ EngineInit(0)
    /\ ManagerInit(0, <<>>)
    /\ pSegs \in SegSeqs
    /\ \E q \in QChoices, pr \in PrevChoices :
          pIn = ("p" :> RefString(pSegs)) @@ q @@ pr
    /\ pAcc \in ParamAccs
    /\ pOut = [raised |-> FALSE, params |-> <<>>]
    /\ pDone = FALSE

\* params = await self._process_params(task.parameters, previous_results)
ProcessParamsCall ==
    /\ ~pDone
    /\ pOut' = ProcessParams(pIn, pAcc)
    /\ pDone' = TRUE
    /\ UNCHANGED <<pSegs, pIn, pAcc, engineVars, mgrVars, runnerVars>>

NextParams == ProcessParamsCall

SpecParams == InitParams /\ [][NextParams]_vars

\* ------------------------------------------- runs driven by a runner thread
\* The signals of a runner thread that end its run.
WorkflowSignals == {"workflowCompleted", "workflowFailed"}

\* workflow_runner.py:56-64: workflowCompleted when execute_workflow returned,
\* workflowFailed with str(e) when it raised.
ThreadSignal(w, o) ==
    IF o.kind = "returned"
    THEN [sig |-> "workflowCompleted", error |-> None]
    ELSE [sig |-> "workflowFailed", error |-> o.exc]

\* The execute_workflow call made by the runner thread of w has ended and the
\* thread has not emitted its workflow signal yet.
ThreadReturning(w) ==
    pc[w] = "idle" /\ outcome[w].kind # "none" /\ Len(emitted[w]) < runs[w]

\* WorkflowRunnerThread.run once execute_workflow has ended
\* (workflow_runner.py:56-68): the returned mapping is assigned to
\* workflow.result and the thread emits its workflow signal.
RunnerThreadEnds(w) ==
    /\ ThreadReturning(w)
    /\ wf' = [wf EXCEPT ![w].result =
                 IF outcome[w].kind = "returned" THEN outcome[w].ret ELSE @]
    /\ emitted' = [emitted EXCEPT ![w] = Append(@, ThreadSignal(w, outcome[w]))]
    /\ UNCHANGED <<task_handlers, cancel_execution, on_task_start, on_task_complete,
                   on_task_fail, tasks, pc, pos, results, outcome, runs, calls,
                   notified, atStart, ending, cancelReq, lastReg, paramVars, mgrVars>>

\* WorkflowRunnerThread.run up to its call of execute_workflow
\* (workflow_runner.py:43-56): a thread is started for w when no thread of w is
\* running, installs its emitters and calls execute_workflow.
RunnerThreadExecutes(w) ==
    /\ Len(emitted[w]) = runs[w]
    /\ on_task_start = w /\ on_task_complete = w /\ on_task_fail = w
    /\ ExecuteWorkflowStart(w)

\* One runner thread at a time on the workflow object of instance T_0, with a
\* stop button, and the manager saving and loading that instance at any moment.
NextRunner ==
    \/ \E h \in HandlerTypes : RegisterTaskHandler(h, DefaultFunc(h))
    \/ InstallHooks(Runner)
    \/ RunnerThreadExecutes(Runner)
    \/ TaskSelected(Runner)
    \/ TaskStarts(Runner)
    \/ HandlerInvoked(Runner)
    \/ HandlerLookupFails(Runner)
    \/ HandlerReturns(Runner)
    \/ HandlerRaises(Runner)
    \/ ExecuteWorkflowCompletes(Runner)
    \/ ExecuteWorkflowCancelled(Runner)
    \/ Stop
    \/ RunnerThreadEnds(Runner)
    \/ SaveWorkflowInstance(Runner)
    \/ LoadWorkflowInstance(meta[Runner].id)

SpecRunner == Init /\ [][NextRunner]_vars

\* ------------------------------------------ two runs on one engine
\* The engine once the application has registered its handlers, and the two
\* workflow objects with n tasks each.
InitShared ==
    /\ \E n \in 1..MaxSharedTasks :
          /\ EngineInit(n) /\ ManagerInit(n, <<>>)
    /\ ParamsIdle

\* The application has registered its handlers; it does so before any run.
HandlersRegistered == \A h \in HandlerTypes : task_handlers[h] = DefaultFunc(h)

\* The application registers the handler of a type at startup.
ApplicationRegisters(h) ==
    /\ ~HandlersRegistered
    /\ RegisterTaskHandler(h, DefaultFunc(h))

\* A runner thread is started for w once the handlers are registered.
SharedThreadExecutes(w) ==
    /\ HandlersRegistered
    /\ RunnerThreadExecutes(w)

\* Two runner threads, one per workflow object, sharing the engine: each
\* installs its emitters and calls execute_workflow once, and the steps of the
\* two calls interleave; either thread may be asked to stop.
NextShared ==
    \/ \E h \in HandlerTypes : ApplicationRegisters(h)
    \/ \E w \in WF :
          \/ InstallHooks(w)
          \/ SharedThreadExecutes(w)
          \/ TaskSelected(w)
          \/ TaskStarts(w)
          \/ HandlerInvoked(w)
          \/ HandlerReturns(w)
          \/ HandlerRaises(w)
          \/ ExecuteWorkflowCompletes(w)
          \/ ExecuteWorkflowCancelled(w)
    \/ Stop

SpecShared == InitShared /\ [][NextShared]_vars

\* ------------------------------------------- runs under the event loop
\* The steps of a call that are the engine's own code: everything but the
\* handler coroutine the call awaits (engine.py:212).
EngineStep(w) ==
    \/ TaskSelected(w)
    \/ TaskStarts(w)
    \/ HandlerInvoked(w)
    \/ HandlerLookupFails(w)
    \/ ExecuteWorkflowCompletes(w)
    \/ ExecuteWorkflowCancelled(w)

NextLive ==
    \/ \E h \in HandlerTypes : RegisterTaskHandler(h, DefaultFunc(h))
    \/ ExecuteWorkflowStart(Runner)
    \/ EngineStep(Runner)
    \/ HandlerReturns(Runner)
    \/ HandlerRaises(Runner)
    \/ Stop

\* loop.run_until_complete (workflow_runner.py:56) keeps running the call's own
\* code; whether an awaited handler ever finishes is up to the handler.
SpecLive == Init /\ [][NextLive]_vars /\ WF_vars(EngineStep(Runner))

\* ------------------------------------------- runs with arbitrary observers
\* The owner of the engine assigns its hook attributes (engine.py:142-145)
\* before the first call: nothing, an emitter of the runner thread, or an
\* observer that raises, independently for each slot.
AssignHooks(s, c, f) ==
    /\ runs[Runner] = 0
    /\ <<on_task_start, on_task_complete, on_task_fail>> = <<NoHook, NoHook, NoHook>>
    /\ on_task_start' = s
    /\ on_task_complete' = c
    /\ on_task_fail' = f
    /\ UNCHANGED <<task_handlers, cancel_execution, tasks, wf, pc, pos, results,
                   outcome, runs, calls, notified, atStart, ending, cancelReq,
                   lastReg, paramVars, mgrVars, runnerVars>>

ObserverChoices == {NoHook, RaisingHook, Runner}

NextObservers ==
    \/ \E h \in HandlerTypes : ApplicationRegisters(h)
    \/ \E s, c, f \in ObserverChoices : AssignHooks(s, c, f)
    \/ ExecuteWorkflowStart(Runner)
    \/ EngineStep(Runner)
    \/ HandlerReturns(Runner)
    \/ HandlerRaises(Runner)
    \/ Stop

SpecObservers == Init /\ [][NextObservers]_vars

\* ------------------------------------------------------------------ claims
N(w) == Len(tasks[w])

\* The call on w has returned or raised, and w has not been reset since.
Ended(w) == pc[w] = "idle" /\ ending[w] # "none"

\* The handler of task i was invoked in the current call and returned.
HandlerSucceeded(w, i) ==
    /\ i \in DOMAIN calls[w]
    /\ calls[w][i].idx = i
    /\ calls[w][i].done
    /\ calls[w][i].ok

\* Every task was pending when the current call began (a freshly created or
\* reset workflow).
FreshAtStart(w) == \A i \in DOMAIN atStart[w].status : atStart[w].status[i] = "pending"

\* C1: when the handlers of all N tasks have been invoked and have succeeded,
\* the call ends with every task completed, the workflow completed and
\* workflow.result a mapping of exactly N entries, task id -> handler result.
C1_AllSucceed ==
    \A w \in WF :
        (Ended(w) /\ \A i \in 1..N(w) : HandlerSucceeded(w, i))
            => /\ \A i \in 1..N(w) : tasks[w][i].status = "completed"
               /\ wf[w].status = "completed"
               /\ wf[w].result.kind = "dict"
               /\ DOMAIN wf[w].result.v = {tasks[w][i].id : i \in 1..N(w)}
               /\ Cardinality(DOMAIN wf[w].result.v) = N(w)
               /\ \A i \in 1..N(w) : wf[w].result.v[tasks[w][i].id] = calls[w][i].val

\* C1 witness: a call on a workflow of at least three tasks has ended after
\* three successful handler invocations.
C1_Witness ==
    \E w \in WF :
        /\ Ended(w)
        /\ N(w) >= 3
        /\ \A i \in 1..N(w) : HandlerSucceeded(w, i)
        /\ wf[w].status = "completed"

\* Task k is the first task of the current call whose handler failed.
FirstFailure(w, k) ==
    /\ Len(calls[w]) = k
    /\ calls[w][k].idx = k
    /\ calls[w][k].done
    /\ ~calls[w][k].ok
    /\ \A i \in 1..(k - 1) : HandlerSucceeded(w, i)

\* C2: when task k of a freshly created workflow is the first whose handler
\* fails, the call ends with the workflow failed with task k's error message,
\* tasks 1..k-1 completed, task k failed, and tasks k+1..N pending with their
\* handlers never invoked.
C2_FirstFailureStopsRun ==
    \A w \in WF : \A k \in 1..N(w) :
        (Ended(w) /\ FreshAtStart(w) /\ FirstFailure(w, k))
            => /\ wf[w].status = "failed"
               /\ tasks[w][k].error # None
               /\ wf[w].error = tasks[w][k].error
               /\ \A i \in 1..(k - 1) : tasks[w][i].status = "completed"
               /\ tasks[w][k].status = "failed"
               /\ \A i \in (k + 1)..N(w) : tasks[w][i].status = "pending"
               /\ \A c \in DOMAIN calls[w] : calls[w][c].idx <= k

\* C2 witness: the second of three tasks failed after the first completed.
C2_Witness ==
    \E w \in WF :
        /\ Ended(w)
        /\ FreshAtStart(w)
        /\ N(w) = 3
        /\ FirstFailure(w, 2)
        /\ tasks[w][1].status = "completed"
        /\ tasks[w][3].status = "pending"

\* Cancellation was requested during the current call before the cancellation
\* check of task i, and every earlier task completed.
CancelledBefore(w, i) ==
    /\ cancelReq[w].before = i
    /\ \A j \in 1..(i - 1) : tasks[w][j].status = "completed"

\* C3: when cancellation is requested during a call before task i starts (and
\* the tasks before i complete), tasks i..N keep the status they had when the
\* call began (pending) and are never invoked, the workflow ends failed with the
\* cancellation marker, and the call returns exactly the results of tasks
\* 1..i-1.
C3_CancelBeforeTask ==
    \A w \in WF : \A i \in 1..N(w) :
        (Ended(w) /\ CancelledBefore(w, i))
            => /\ \A j \in i..N(w) : tasks[w][j].status = atStart[w].status[j]
               /\ FreshAtStart(w) => \A j \in i..N(w) : tasks[w][j].status = "pending"
               /\ \A c \in DOMAIN calls[w] : calls[w][c].idx < i
               /\ wf[w].status = "failed"
               /\ wf[w].error = CancelMsg
               /\ outcome[w].kind = "returned"
               /\ DOMAIN outcome[w].ret.v = {tasks[w][j].id : j \in 1..(i - 1)}
               /\ \A j \in 1..(i - 1) : outcome[w].ret.v[tasks[w][j].id] = calls[w][j].val

\* C3 witness: a call on a fresh three-task workflow was cancelled before its
\* second task and has returned the first task's result.
C3_Witness ==
    \E w \in WF :
        /\ Ended(w)
        /\ FreshAtStart(w)
        /\ N(w) = 3
        /\ CancelledBefore(w, 2)
        /\ tasks[w][2].status = "pending"
        /\ DOMAIN outcome[w].ret.v = {TaskId(1)}

\* C4: a call stopped at the cancellation check returns the partial results
\* without raising, a call stopped by a failure raises and returns nothing; the
\* workflow is failed in both cases.
C4_AbortPathsAsymmetric ==
    \A w \in WF :
        Ended(w) =>
            /\ ending[w] = "cancelled"
                  => /\ outcome[w].kind = "returned"
                     /\ outcome[w].exc = None
                     /\ outcome[w].ret = Dict(results[w])
                     /\ wf[w].status = "failed"
            /\ ending[w] = "failed"
                  => /\ outcome[w].kind = "raised"
                     /\ outcome[w].exc # None
                     /\ outcome[w].ret = Null
                     /\ wf[w].status = "failed"

\* C4 witness: a cancelled call has handed back a non-empty partial result.
C4_Witness ==
    \E w \in WF :
        /\ Ended(w)
        /\ ending[w] = "cancelled"
        /\ outcome[w].kind = "returned"
        /\ outcome[w].ret.v # <<>>

\* C5: a task's status changes only pending -> running, running -> completed
\* or running -> failed, or by the explicit reset before a new run.
C5_StatusMonotonic ==
    [][\A w \in WF : \A i \in DOMAIN tasks[w] :
          LET a == tasks[w][i].status
              b == tasks'[w][i].status
          IN \/ a = b
             \/ a = "pending" /\ b = "running"
             \/ a = "running" /\ b \in {"completed", "failed"}
             \/ ResetForRun(w)]_vars

\* C6: within one call at most one task is running, handlers are invoked in
\* array order, and the handler of a task is invoked only after the task before
\* it has completed.
C6_OneAtATimeInOrder ==
    \A w \in WF :
        pc[w] # "idle" =>
            /\ Cardinality({i \in DOMAIN tasks[w] : tasks[w][i].status = "running"}) <= 1
            /\ \A c \in DOMAIN calls[w] :
                  /\ calls[w][c].idx = c
                  /\ c < Len(calls[w])
                        => /\ calls[w][c].done
                           /\ calls[w][c].ok
                           /\ tasks[w][c].status = "completed"

\* C6 witness: the handler of the third task is executing.
C6_Witness ==
    \E w \in WF :
        /\ pc[w] = "handler"
        /\ pos[w] = 3
        /\ Len(calls[w]) = 3
        /\ tasks[w][3].status = "running"

\* C7: a cancellation raised while the handler of task i is executing leaves
\* the task to its handler: it ends completed, with its result in the
\* accumulator, if the handler returns, and failed if it raises; the call then
\* stops at the check before task i+1, or completes if i is the last task.
C7_CancelOnlyBetweenTasks ==
    \A w \in WF :
        LET i == cancelReq[w].during
        IN (i # 0 /\ (pc[w] # "idle" \/ Ended(w)) /\ calls[w][i].done)
              => /\ tasks[w][i].status = IF calls[w][i].ok THEN "completed" ELSE "failed"
                 /\ calls[w][i].ok
                       => /\ tasks[w][i].result = calls[w][i].val
                          /\ tasks[w][i].id \in DOMAIN results[w]
                          /\ results[w][tasks[w][i].id] = calls[w][i].val
                          /\ Len(calls[w]) = i
                          /\ Ended(w) => ending[w] = IF i < N(w) THEN "cancelled"
                                                    ELSE "completed"

\* C7 witness: cancellation came while the first handler was executing, the
\* task completed and the call was cancelled at the next check.
C7_Witness ==
    \E w \in WF :
        /\ cancelReq[w].during = 1
        /\ Ended(w)
        /\ ending[w] = "cancelled"
        /\ tasks[w][1].status = "completed"
        /\ TaskId(1) \in DOMAIN outcome[w].ret.v

\* C8: the task-failure outcome (task.status = "failed") of the task a failed
\* call stopped at is produced only by a failure of its handler: an unregistered
\* handler type is not a task-level error.
C8_UnregisteredIsNotTaskFailure ==
    \A w \in WF :
        (Ended(w) /\ ending[w] = "failed")
            => LET i == wf[w].current_task_index + 1
               IN tasks[w][i].status = "failed"
                     => /\ calls[w] # <<>>
                        /\ calls[w][Len(calls[w])].idx = i
                        /\ calls[w][Len(calls[w])].done
                        /\ ~calls[w][Len(calls[w])].ok

\* The task id a reference string names: what stands between the leading '$'
\* and the first dot (or the end of the string).
RefTaskId(str) ==
    LET body == Tail(str)
        stop == CHOOSE i \in 1..(Len(body) + 1) :
                    /\ i = Len(body) + 1 \/ body[i] = "."
                    /\ \A j \in 1..(i - 1) : body[j] # "."
    IN SubSeq(body, 1, stop - 1)

\* The index a path segment denotes (a single decimal digit), or -1.
SegIndex(seg) ==
    IF Len(seg) = 1 /\ seg[1] = "0" THEN 0
    ELSE IF Len(seg) = 1 /\ \E d \in DOMAIN Digits : Digits[d] = seg[1]
         THEN CHOOSE d \in DOMAIN Digits : Digits[d] = seg[1]
         ELSE -1

\* C9: every key other than previous_result whose value is a reference string
\* naming a task id that is not in the accumulator resolves to the original
\* literal string, and the call raises no error.
C9_UnknownIdKeepsLiteral ==
    pDone =>
        \A key \in DOMAIN pIn \ {"previous_result"} :
            (IsRef(pIn[key]) /\ RefTaskId(pIn[key].v) \notin DOMAIN pAcc)
                => /\ ~pOut.raised
                   /\ key \in DOMAIN pOut.params
                   /\ pOut.params[key] = pIn[key]

\* C9 witness: a reference with path segments to a task id missing from a
\* non-empty accumulator has been resolved to itself.
C9_Witness ==
    /\ pDone
    /\ pAcc # <<>>
    /\ Len(pSegs) >= 2
    /\ pSegs[1] # <<>>
    /\ pSegs[1] \notin DOMAIN pAcc
    /\ pOut.params["p"] = pIn["p"]
    /\ Head(pOut.params["p"].v) = "$"

\* The values the walk of the reference "$" pSegs passes through: entry j is
\* the value after j segments, None once a segment could not be followed.
WalkValues ==
    LET n == Len(pSegs) - 1
        cur[j \in 0..n] ==
            IF j = 0 THEN pAcc[pSegs[1]]
            ELSE IF cur[j - 1].kind = "dict" /\ pSegs[j + 1] \in DOMAIN cur[j - 1].v
                 THEN cur[j - 1].v[pSegs[j + 1]]
                 ELSE Null
    IN cur

\* The walk meets a sequence with a segment that is an index within its range.
WalkIndexesSequence ==
    \E j \in 1..(Len(pSegs) - 1) :
        /\ WalkValues[j - 1].kind = "list"
        /\ SegIndex(pSegs[j + 1]) >= 0
        /\ SegIndex(pSegs[j + 1]) < Len(WalkValues[j - 1].v)

\* C10: a reference "$<taskId>.<s1>...<sn>" whose task id is in the accumulator
\* resolves to the value reached by following the segments through the mappings
\* from the task's whole result, None from the first segment that cannot be
\* followed, and the whole result when there are no segments (walks that index
\* into a sequence are the subject of C11).
C10_WalkFollowsSegments ==
    (pDone /\ pSegs[1] \in DOMAIN pAcc /\ ~WalkIndexesSequence)
        => /\ ~pOut.raised
           /\ "p" \in DOMAIN pOut.params
           /\ pOut.params["p"] = WalkValues[Len(pSegs) - 1]

\* C10 witness: a two-segment reference to a task in the accumulator has been
\* walked through two mappings to the leaf it names.
C10_Witness ==
    /\ pDone
    /\ Len(pSegs) = 3
    /\ pSegs[1] \in DOMAIN pAcc
    /\ pAcc[pSegs[1]].kind = "dict"
    /\ ~WalkIndexesSequence
    /\ pOut.params["p"] = Str(<<"v">>)

\* The walk the specification describes: a mapping is entered by key, a
\* sequence by a non-negative index within its range, anything else gives None.
RECURSIVE IndexedWalk(_, _)
IndexedWalk(result, parts) ==
    IF parts = <<>> THEN result
    ELSE IF result.kind = "dict" /\ Head(parts) \in DOMAIN result.v
         THEN IndexedWalk(result.v[Head(parts)], Tail(parts))
    ELSE IF result.kind = "list" /\ SegIndex(Head(parts)) >= 0
                                 /\ SegIndex(Head(parts)) < Len(result.v)
         THEN IndexedWalk(result.v[SegIndex(Head(parts)) + 1], Tail(parts))
    ELSE Null

\* C11: when the walk of a reference meets a sequence with a segment that is a
\* non-negative integer within range, the resolved value is the one reached by
\* indexing into the sequence and walking on from that element.
C11_WalkIndexesSequences ==
    (pDone /\ pSegs[1] \in DOMAIN pAcc /\ WalkIndexesSequence)
        => /\ ~pOut.raised
           /\ pOut.params["p"] = IndexedWalk(pAcc[pSegs[1]], Tail(pSegs))

\* The task id a previous_result string names: the string without its leading
\* '$', or the string itself when it has none.
PrevTaskId(val) == IF Head(val.v) = "$" THEN Tail(val.v) ELSE val.v

C13_ResolvesAgainstPriorResults ==
    \A w \in WF : \A c \in DOMAIN calls[w] :
        LET call == calls[w][c]
            i == call.idx
        IN /\ i = c
           /\ DOMAIN call.acc = {tasks[w][j].id : j \in 1..(i - 1)}
           /\ \A j \in 1..(i - 1) :
                 /\ calls[w][j].done /\ calls[w][j].ok
                 /\ call.acc[tasks[w][j].id] = calls[w][j].val
           /\ call.params = ProcessParams(tasks[w][i].parameters, call.acc).params

\* C13 witness: in a second call on the same workflow, after a first call that
\* stored results, the first task's parameters were resolved against an empty
\* accumulator and the second task's against the first task's new result.
C13_Witness ==
    \E w \in WF :
        /\ runs[w] = 2
        /\ atStart[w].result # Null
        /\ Len(calls[w]) >= 2
        /\ calls[w][1].acc = <<>>
        /\ DOMAIN calls[w][2].acc = {TaskId(1)}

\* C14: the registry holds one handler per type: the handler looked up for a
\* type, and the one a task of that type is executed with, is the callable of
\* the most recent registration of that type, whatever was registered for it
\* before and whatever is registered for other types.
C14_LastRegistrationWins ==
    /\ [](\A h \in HandlerTypes : LookupHandler(h) = lastReg[h])
    /\ [][\A w \in WF :
             Len(calls'[w]) > Len(calls[w])
                => calls'[w][Len(calls'[w])].func = lastReg[tasks[w][pos[w]].handler]]_vars

\* C14 witness: the first and third task of one call have the same handler
\* type and were executed with different callables, the second being the one
\* registered last, while the other type holds its own registration.
C14_Witness ==
    \E w \in WF :
        /\ Len(calls[w]) = 3
        /\ tasks[w][1].handler = tasks[w][3].handler
        /\ calls[w][1].func # calls[w][3].func
        /\ calls[w][3].func = LookupHandler(tasks[w][3].handler)
        /\ LookupHandler(tasks[w][2].handler) = calls[w][2].func

\* The number of tasks the current call on w has started (marked running).
StartedCount(w) ==
    IF pc[w] = "exec" THEN pos[w] - 1 ELSE wf[w].current_task_index + 1

\* What the hooks in place when the call began are owed for tasks 1..k: per
\* task its start, then its completion with the result or its failure with the
\* error message once it has left 'running'.
RECURSIVE OwedNotifications(_, _)
OwedNotifications(w, k) ==
    IF k = 0 THEN <<>>
    ELSE LET t == tasks[w][k]
             h == atStart[w].hooks
             owed(hook, ev, arg) ==
                 IF hook = NoHook THEN <<>>
                 ELSE <<[to |-> hook, ev |-> ev, task |-> t.id, arg |-> arg]>>
         IN OwedNotifications(w, k - 1)
            \o owed(h[1], "start", Null)
            \o (CASE t.status = "completed" -> owed(h[2], "complete", t.result)
                  [] t.status = "failed" -> owed(h[3], "fail", Msg(t.error))
                  [] OTHER -> <<>>)

\* C15: the notifications of a call are, for every task it has started and in
\* task order, one 'started' (task id) delivered before the handler is invoked,
\* followed once the task has ended by exactly one of 'completed' (task id,
\* result) or 'failed' (task id, error message); tasks never started get none,
\* and each goes to the hook registered in its slot.
C15_HookPerTaskEvent ==
    \A w \in WF :
        (runs[w] > 0 /\ (pc[w] # "idle" \/ Ended(w)))
            => /\ notified[w] = OwedNotifications(w, StartedCount(w))
               /\ \A c \in DOMAIN calls[w] : calls[w][c].idx <= StartedCount(w)

\* C15 witness: with the runner's hooks installed, a call has ended after its
\* first task completed and its second failed, leaving a third never started:
\* four notifications were delivered.
C15_Witness ==
    \E w \in WF :
        /\ Ended(w)
        /\ N(w) = 3
        /\ atStart[w].hooks = <<w, w, w>>
        /\ tasks[w][1].status = "completed"
        /\ tasks[w][2].status = "failed"
        /\ Len(notified[w]) = 4
        /\ notified[w][4].ev = "fail"

\* C16: the ids create_workflow_from_template hands out are pairwise distinct;
\* each creation writes a file of its own under the new id and touches no other
\* file; loading an id reads the instance of that id and changes no file;
\* deleting an id removes that file only; no step changes a template.
C16_InstancesAreIndependent ==
    /\ [](\A i, j \in DOMAIN created : i # j => created[i] # created[j])
    /\ [][/\ templates' = templates
          /\ (created' # created)
                => LET id == created'[Len(created')]
                   IN /\ id \notin DOMAIN files
                      /\ id \in DOMAIN files'
                      /\ files'[id].kind = "obj"
                      /\ files'[id].d.id = id
                      /\ ret'.kind = "workflow" /\ ret'.val.id = id
                      /\ \A f \in DOMAIN files : f \in DOMAIN files' /\ files'[f] = files[f]
          /\ (ret'.op = "load")
                => /\ files' = files
                   /\ (\E i \in DOMAIN created : created[i] = ret'.arg) /\ ret'.arg \in DOMAIN files
                         => ret'.kind = "workflow" /\ ret'.val.id = ret'.arg
          /\ (ret'.op = "delete")
                => /\ DOMAIN files' = DOMAIN files \ {ret'.arg}
                   /\ \A f \in DOMAIN files' : files'[f] = files[f]]_vars

\* C16 witness: two instances were created from template T, the first has been
\* deleted, and the second has just been loaded from its own file.
C16_Witness ==
    /\ Len(created) = 2
    /\ created[1] \notin DOMAIN files
    /\ created[2] \in DOMAIN files
    /\ ret.op = "load"
    /\ ret.arg = created[2]
    /\ ret.kind = "workflow"
    /\ ret.val.id = created[2]
    /\ "T" \in DOMAIN templates

\* C17: when a workflow that has reached a terminal state is saved and then
\* loaded by its id, the loaded workflow has the same tasks in the same order:
\* same ids, handler types, parameters, and the same terminal statuses and
\* results.
C17_SaveLoadRoundTrip ==
    [][\A w \in WF :
          (/\ Ended(w)
           /\ ret.op = "save" /\ ret.arg = meta[w].id
           /\ files[meta[w].id] = JsonObj(WorkflowToDict(ObjectOf(w)))
           /\ ret'.op = "load" /\ ret'.arg = meta[w].id)
             => /\ ret'.kind = "workflow"
                /\ Len(ret'.val.tasks) = N(w)
                /\ \A i \in 1..N(w) :
                      /\ ret'.val.tasks[i].id = tasks[w][i].id
                      /\ ret'.val.tasks[i].handler = tasks[w][i].handler
                      /\ ret'.val.tasks[i].parameters = tasks[w][i].parameters
                      /\ ret'.val.tasks[i].status = tasks[w][i].status
                      /\ ret'.val.tasks[i].result = tasks[w][i].result]_vars

\* A file of the instance directory that does not follow the instance file
\* format: not a JSON object, or an object without id, name or task list, or
\* with a task that has no id or no handler type.
Malformed(c) ==
    \/ c.kind # "obj"
    \/ ~({"id", "name", "tasks"} \subseteq DOMAIN c.d)
    \/ \E i \in DOMAIN c.d.tasks :
          \/ "id" \notin DOMAIN c.d.tasks[i]
          \/ {"handler", "type"} \cap DOMAIN c.d.tasks[i] = {}

\* C18: load_workflow_instance changes no file; for an id without a file it
\* returns None; for a malformed file it returns None or an error, never a
\* workflow.
C18_LoadNeverReturnsCorrupt ==
    [][ret'.op = "load"
          => /\ files' = files
             /\ ret'.arg \notin DOMAIN files => ret'.kind = "none"
             /\ (ret'.arg \in DOMAIN files /\ Malformed(files[ret'.arg]))
                   => ret'.kind \in {"none", "error"}]_vars

\* The position of the summary of file f in a listing, 0 if it has none.
PositionOf(listing, f) ==
    IF \E i \in DOMAIN listing : listing[i].file_path = f
    THEN CHOOSE i \in DOMAIN listing : listing[i].file_path = f
    ELSE 0

\* C19: get_instances returns exactly one summary for every well-formed file
\* and none for a file that does not parse; an instance created later stands before one
\* created earlier; the status of a summary is the status of the workflow that
\* was saved ('pending' for an instance as create_workflow_from_template saved
\* it).
C19_ListingIsFaithful ==
    [][ret'.op = "list"
          => LET listing == ret'.val
             IN /\ \A f \in DOMAIN files :
                      LET n == Cardinality({i \in DOMAIN listing :
                                               listing[i].file_path = f})
                      IN /\ ~Malformed(files[f]) => n = 1
                         /\ files[f].kind # "obj" => n = 0
                /\ \A i, j \in DOMAIN created :
                      (i < j /\ created[i] \in DOMAIN files /\ created[j] \in DOMAIN files)
                         => /\ PositionOf(listing, created[j]) > 0
                            /\ PositionOf(listing, created[j]) < PositionOf(listing, created[i])
                /\ \A i \in DOMAIN created :
                      created[i] \in DOMAIN files
                         => /\ PositionOf(listing, created[i]) > 0
                            /\ listing[PositionOf(listing, created[i])].id = created[i]
                            /\ listing[PositionOf(listing, created[i])].status = "pending"]_vars

\* C20: create_workflow_from_template for a template id that is not in the
\* template directory ends with an error and leaves the instance directory as
\* it was; for a template that is there it returns a workflow with id
\* <template id>_<suffix> and all tasks pending, which by then is persisted
\* under that id, every other file being left as it was.
C20_CreateFromTemplate ==
    [][ret'.op = "create"
          => /\ ret'.arg \notin DOMAIN templates
                   => /\ ret'.kind = "error"
                      /\ files' = files
                      /\ created' = created
             /\ (ret'.arg \in DOMAIN templates /\ created' # created)
                   => LET w == ret'.val
                      IN /\ ret'.kind = "workflow"
                         /\ Len(w.id) = 3 /\ w.id[1] = ret'.arg /\ w.id[2] = "_"
                         /\ Len(w.tasks) = Len(templates[ret'.arg].tasks)
                         /\ \A i \in DOMAIN w.tasks : w.tasks[i].status = "pending"
                         /\ w.id \in DOMAIN files'
                         /\ files'[w.id].kind = "obj"
                         /\ files'[w.id].d.id = w.id
                         /\ Len(files'[w.id].d.tasks) = Len(w.tasks)
                         /\ \A i \in DOMAIN w.tasks :
                               /\ files'[w.id].d.tasks[i].id = w.tasks[i].id
                               /\ files'[w.id].d.tasks[i].status = "pending"
                         /\ \A f \in DOMAIN files \ {w.id} :
                               f \in DOMAIN files' /\ files'[f] = files[f]]_vars

\* C20 witness: after one instance with three pending tasks was created from
\* template T, a creation from the unknown template U has ended with an error
\* and the instance directory holds what it held before.
C20_Witness ==
    /\ ret.op = "create"
    /\ ret.arg = "U"
    /\ ret.kind = "error"
    /\ Len(created) = 1
    /\ DOMAIN files = {InstanceId("T", 0), created[1]}
    /\ Len(files[created[1]].d.tasks) = 3

\* C21: once the run of a runner thread has ended with the workflow completed
\* or failed and the thread has finished, the persisted instance of that
\* workflow id reflects the terminal state: loading it gives a workflow with
\* that status, not the state before the run.
C21_PersistedAfterRun ==
    \A w \in {Runner} :
        (/\ runs[w] > 0
         /\ pc[w] = "idle"
         /\ Len(emitted[w]) = runs[w]
         /\ wf[w].status \in {"completed", "failed"})
            => /\ LoadResult(files, meta[w].id, now).kind = "workflow"
               /\ LoadResult(files, meta[w].id, now).val.status = wf[w].status

\* The engine slot an event is reported through.
HookSlot(ev) ==
    CASE ev = "start" -> on_task_start
      [] ev = "complete" -> on_task_complete
      [] OTHER -> on_task_fail

\* C22: the cancellation flag and the observer hooks belong to the engine, not
\* to a run: whichever of two runs in progress reaches its cancellation check
\* while the flag is set stops there with status 'failed' and the cancellation
\* marker, and every task notification of a run goes to the hooks that are in
\* the engine's slots at that moment, whichever thread installed them.
C22_EngineLevelCancelAndHooks ==
    [][\A w \in WF :
          /\ (/\ pc[w] = "loop" /\ pos[w] <= N(w)
              /\ pc'[w] # "loop"
              /\ cancel_execution)
                => /\ wf'[w].status = "failed"
                   /\ wf'[w].error = CancelMsg
                   /\ ending'[w] = "cancelled"
                   /\ pc'[w] = "idle"
          /\ Len(notified'[w]) > Len(notified[w])
                => LET e == notified'[w][Len(notified'[w])]
                   IN e.to = HookSlot(e.ev)]_vars

\* C22: both runs were in progress when cancellation was requested and both
\* stopped with the marker, and run A, which began with its own thread's hooks
\* installed, had a task notification delivered to the hooks of B's thread.
C22_Witness ==
    /\ \A w \in WF :
          /\ cancelReq[w] # NoRequest
          /\ Ended(w) /\ ending[w] = "cancelled"
          /\ wf[w].status = "failed" /\ wf[w].error = CancelMsg
    /\ atStart["A"].hooks = <<"A", "A", "A">>
    /\ \E i \in DOMAIN notified["A"] : notified["A"][i].to = "B"

\* C23: the first step of a call sets workflow.status to 'running' and
\* current_task_index to -1, starts from an empty accumulator and clears the
\* cancellation flag; a request raised before that step therefore does not
\* touch the call: while no request is raised during the call the flag stays
\* clear, the call never leaves through the cancellation exit, and it ends
\* either with the handlers of all N tasks invoked and the workflow completed
\* or through the failure of a task.
C23_StartClearsStaleCancel ==
    /\ [][\A w \in {Runner} :
             (pc[w] = "idle" /\ pc'[w] # "idle")
                => /\ wf'[w].status = "running"
                   /\ wf'[w].current_task_index = -1
                   /\ results'[w] = <<>>
                   /\ ~cancel_execution']_vars
    /\ [](\A w \in {Runner} :
             (runs[w] > 0 /\ cancelReq[w] = NoRequest)
                => /\ pc[w] # "idle" => ~cancel_execution
                   /\ ending[w] # "cancelled"
                   /\ Ended(w)
                         => \/ /\ ending[w] = "completed"
                               /\ Len(calls[w]) = N(w)
                               /\ \A i \in 1..N(w) : calls[w][i].idx = i
                            \/ /\ ending[w] = "failed"
                               /\ \E i \in 1..N(w) : tasks[w][i].status = "failed")

\* C23: a call that began while a cancellation request was still set has ended
\* with all its tasks executed.
C23_Witness ==
    /\ atStart[Runner].cancel
    /\ cancelReq[Runner] = NoRequest
    /\ Ended(Runner) /\ ending[Runner] = "completed"
    /\ N(Runner) >= 2
    /\ \A i \in 1..N(Runner) : HandlerSucceeded(Runner, i)

C25_Termination ==
    /\ ([](pc[Runner] = "handler" => <>(pc[Runner] # "handler")))
          => [](pc[Runner] # "idle"
                   => <>(/\ pc[Runner] = "idle"
                         /\ wf[Runner].status \in {"completed", "failed"}))
    /\ [](Len(calls[Runner]) <= N(Runner))
    /\ [](pc[Runner] = "handler" => wf[Runner].status = "running")
    /\ [][pc[Runner] = "handler" /\ pc'[Runner] # "handler"
             => /\ ~calls[Runner][Len(calls[Runner])].done
                /\ calls'[Runner][Len(calls[Runner])].done]_vars

\* C25: a call has ended after as many handler invocations as the workflow has
\* tasks, although cancellation was requested while its last handler ran.
C25_Witness ==
    /\ N(Runner) >= 2
    /\ Ended(Runner)
    /\ Len(calls[Runner]) = N(Runner)
    /\ cancelReq[Runner].during = N(Runner)
    /\ wf[Runner].status \in {"completed", "failed"}

\* C26: whenever a call has returned or raised, workflow.status is 'completed'
\* or 'failed' and no task of the workflow has status 'running', whatever the
\* handlers and the three observer hooks did, a raising hook included.
C26_NothingLeftRunning ==
    \A w \in {Runner} :
        Ended(w)
           => /\ wf[w].status \in {"completed", "failed"}
              /\ \A i \in 1..N(w) : tasks[w][i].status # "running"

\* C27: whenever workflow.status is 'completed', workflow.error is None and
\* every task has status 'completed' and no error, also when the successful
\* run follows a failed or cancelled run of the same workflow object.
C27_CompletedMeansClean ==
    \A w \in {Runner} :
        wf[w].status = "completed"
           => /\ wf[w].error = None
              /\ \A i \in 1..N(w) :
                    /\ tasks[w][i].status = "completed"
                    /\ tasks[w][i].error = None

\* C28: execute_workflow assigns workflow.result on the completed path only:
\* the one step of a call that changes it is the completion, which stores the
\* accumulator; while the call is in progress and after it ended by a task
\* failure or by cancellation, workflow.result is what it was when the call
\* began; a cancelled call hands out the partial accumulator as its return
\* value, a failed call returns nothing.
C28_ResultOnlyWhenCompleted ==
    /\ [][\A w \in {Runner} :
             wf'[w].result # wf[w].result
                => /\ pc[w] = "loop" /\ pc'[w] = "idle"
                   /\ ending'[w] = "completed"
                   /\ wf'[w].status = "completed"
                   /\ wf'[w].result = Dict(results[w])]_vars
    /\ [](\A w \in {Runner} :
             /\ pc[w] # "idle" => wf[w].result = atStart[w].result
             /\ (Ended(w) /\ ending[w] \in {"failed", "cancelled"})
                   => wf[w].result = atStart[w].result
             /\ (Ended(w) /\ ending[w] = "cancelled")
                   => outcome[w] = Returned(results[w])
             /\ (Ended(w) /\ ending[w] = "failed")
                   => outcome[w].kind = "raised" /\ outcome[w].ret = Null)

\* C28: a re-run of a workflow that had completed before was cancelled after
\* its first task: workflow.result is still the mapping of the earlier run and
\* the call returned a partial accumulator that differs from it.
C28_Witness ==
    /\ Ended(Runner) /\ ending[Runner] = "cancelled"
    /\ atStart[Runner].result # Null
    /\ wf[Runner].result = atStart[Runner].result
    /\ results[Runner] # <<>>
    /\ outcome[Runner].ret = Dict(results[Runner])
    /\ outcome[Runner].ret # wf[Runner].result

\* C29: for each run driven by a runner thread exactly one workflow signal is
\* emitted, once the call has ended and so after all task signals of the run,
\* and it is workflowCompleted only when the workflow ended with status
\* 'completed': a run that ended with status 'failed', by a task failure or by
\* cancellation, is reported through workflowFailed.
C29_SignalMatchesStatus ==
    \A w \in {Runner} :
        /\ Len(emitted[w]) <= runs[w]
        /\ Len(emitted[w]) >= runs[w] - 1
        /\ \A i \in DOMAIN emitted[w] : emitted[w][i].sig \in WorkflowSignals
        /\ (runs[w] > 0 /\ Len(emitted[w]) = runs[w])
              => /\ pc[w] = "idle"
                 /\ emitted[w][runs[w]].sig = "workflowCompleted"
                       <=> wf[w].status = "completed"
                 /\ emitted[w][runs[w]].sig = "workflowFailed"
                       <=> wf[w].status = "failed"

\* C30: a cancellation requested while a run is in progress is never lost:
\* from the request on, the run passes no further cancellation check, so no
\* task after the one that was executing is started, whatever other
\* execute_workflow call begins on the engine in the meantime.
C30_CancelNeverLost ==
    \A w \in WF :
        cancelReq[w] # NoRequest
           => /\ pc[w] \in {"exec", "started", "handler"}
                    => pos[w] < cancelReq[w].before
              /\ \A i \in DOMAIN calls[w] : calls[w][i].idx < cancelReq[w].before
              /\ \A i \in 1..N(w) :
                    (i >= cancelReq[w].before /\ atStart[w].status[i] = "pending")
                       => tasks[w][i].status = "pending"

====
